---- MODULE Spec2Model ----
(***************************************************************************)
(* Bone Tracer for ComfyUI: the export operator                            *)
(* BONE_TRACER_OT_export.execute of                                        *)
(* 250713_MICKMUMPITZ_BLENDER_BONE_TRACER_v24.py as a state machine.       *)
(*                                                                         *)
(* Host (Blender) state: the scene, the add-on properties, the active      *)
(* object, each object's interaction mode, the current frame and the       *)
(* output file.  The locals of execute() are variables of the same name.   *)
(*                                                                         *)
(* Coordinates: every position is a pair of integers in units of 1/Den,    *)
(* Den a power of two, so that a normalized camera coordinate k/Den and    *)
(* its product with a small integer resolution are exact in binary         *)
(* floating point, and int() of the product is int() of the exact          *)
(* rational.                                                               *)
(***************************************************************************)
EXTENDS Integers, Sequences, FiniteSets, TLC

MaxFrame == 2   \* frames of the timeline are 1..MaxFrame
MaxRes == 2     \* resolutions are 1..MaxRes in each direction
DenBits == 1    \* coordinates are multiples of 1 / 2^DenBits
MaxRuns == 2    \* number of invocations of the operator in one behaviour

Den == 2 ^ DenBits

VARIABLES
    scene,          \* context.scene and the selection: fixed during a behaviour
    props,          \* context.scene.bone_tracer_props
    active,         \* context.view_layer.objects.active
    object_mode,    \* the interaction mode of every object
    frame_current,  \* context.scene.frame_current
    file,           \* the output file at props.output_path
    pc,             \* position in execute()
    res_x, res_y, frame_start, frame_end,
    selected_armatures, selected_empties, selected_bones_with_armature,
    original_mode, original_active, current_frame,
    bone_traces,    \* the list that is dumped to the file
    trace,          \* bone_trace / empty_trace of the entity being traced
    ei,             \* index of the loop over armatures, bones or empties
    fi,             \* index into range(frame_start, frame_end + 1)
    raised,         \* an exception is propagating out of the try block
    result,         \* what execute() returned
    reports,        \* levels passed to self.report during this call
    wrote,          \* this call wrote the output file
    entry,          \* host state immediately before this call
    frame_set_log,  \* arguments of the frame_set calls of this call
    samples,        \* one record for each projection computed in this call
    traced,         \* the entity of each element of bone_traces
    runs,           \* invocations so far
    prev            \* bone_traces of the previous successful invocation

host == <<scene, props, active, object_mode, frame_current, file>>
locals == <<pc, res_x, res_y, frame_start, frame_end, selected_armatures,
            selected_empties, selected_bones_with_armature, original_mode,
            original_active, current_frame, bone_traces, trace, ei, fi,
            raised, result, reports>>
ghost == <<wrote, entry, frame_set_log, samples, traced, runs, prev>>
vars == <<host, locals, ghost>>

----------------------------------------------------------------------------
(* The host scene *)

Objects == {"armA", "armB", "emptyE", "emptyF", "cube"}
Bones == {"b1", "b2", "b3"}
BonePoints == {"HEAD", "TAIL", "CENTER"}

Type(obj) ==
    CASE obj \in {"armA", "armB"} -> "ARMATURE"
      [] obj \in {"emptyE", "emptyF"} -> "EMPTY"
      [] OTHER -> "MESH"

\* armature.pose.bones
PoseBones(armature) ==
    CASE armature = "armA" -> <<"b1", "b2">>
      [] armature = "armB" -> <<"b3">>
      [] OTHER -> <<>>

Add(p, q) == <<p[1] + q[1], p[2] + q[2]>>

\* bone.head and bone.tail in armature space, at the current frame;
\* both have even coordinates so that their midpoint is on the grid
BoneHead(bone, f) ==
    CASE bone = "b1" -> <<2 * f, 2>>
      [] bone = "b2" -> <<0, 2 * f - 2>>
      [] OTHER -> <<-2 * f, 0>>

BoneTail(bone, f) ==
    CASE bone = "b1" -> <<2 * f + 2, 4>>
      [] bone = "b2" -> <<-2, 2 * f>>
      [] OTHER -> <<4, 2 - 2 * f>>

\* armature.matrix_world @ p: the armatures of the scene are translated
MatrixWorld(armature, p) ==
    Add(IF armature = "armA" THEN <<0, 0>> ELSE <<1, -1>>, p)

\* bone_pos of lines 156-161
BonePos(bone, f) ==
    IF props.bone_point = "HEAD" THEN BoneHead(bone, f)
    ELSE IF props.bone_point = "TAIL" THEN BoneTail(bone, f)
    ELSE <<(BoneHead(bone, f)[1] + BoneTail(bone, f)[1]) \div 2,
           (BoneHead(bone, f)[2] + BoneTail(bone, f)[2]) \div 2>>

\* empty.matrix_world.translation at the current frame
EmptyWorldPosBonePoint(empty, f) ==
    Add(IF props.bone_point = "HEAD" THEN <<0, 0>> ELSE <<1, 1>>,
        IF empty = "emptyE" THEN <<f, 1 - f>> ELSE <<3 - f, f + 1>>)

EmptyWorldPos(empty, f) ==
    IF empty = "emptyE" THEN <<f, 1 - f>> ELSE <<3 - f, f + 1>>

\* world_to_camera_view(scene, camera, world_pos): normalized camera
\* coordinates (x right, y up) of a world position; the camera looks at the
\* square with lower left corner scene.cam and side 1
WorldToCameraView(world_pos) ==
    <<world_pos[1] - scene.cam[1], world_pos[2] - scene.cam[2]>>

----------------------------------------------------------------------------
(* Pure parts of execute() *)

\* int(num / den) of Python: truncation toward zero
ToIntFloor(num, den) == num \div den

ToIntRound(num, den) == (2 * num + den) \div (2 * den)

ToInt(num, den) ==
    IF num >= 0 THEN num \div den ELSE -((-num) \div den)

\* pixel_pos of the bone loop
BonePixelPos(cam_pos, rx, ry) ==
    [x |-> ToInt(cam_pos[1] * rx, Den),
     y |-> ToInt((Den - cam_pos[2]) * ry, Den)]

\* pixel_pos of the empty loop
EmptyPixelPos(cam_pos, rx, ry) ==
    [x |-> ToInt(cam_pos[1] * rx, Den),
     y |-> ToInt((Den - cam_pos[2]) * ry, Den)]

\* range(frame_start, frame_end + 1)
FrameRangeShort(fs, fe) ==
    [i \in 1..(IF fe > fs THEN fe - fs ELSE 0) |-> fs + i - 1]

FrameRangeSwapped(fs, fe) ==
    IF fe >= fs THEN [i \in 1..(fe - fs + 1) |-> fs + i - 1]
    ELSE [i \in 1..(fs - fe + 1) |-> fe + i - 1]

FrameRange(fs, fe) ==
    [i \in 1..(IF fe >= fs THEN fe - fs + 1 ELSE 0) |-> fs + i - 1]

IsArmature(obj) == Type(obj) = "ARMATURE"
IsEmpty(obj) == Type(obj) = "EMPTY"

\* [obj for obj in context.selected_objects if obj.type == 'ARMATURE']
SelectedArmatures == SelectSeq(scene.selected_objects, IsArmature)

\* [obj for obj in context.selected_objects if obj.type == 'EMPTY']
SelectedEmpties == SelectSeq(scene.selected_objects, IsEmpty)

BoneSelect(bone) == bone \in scene.bone_select

Pairs(armature, bones) == [i \in 1..Len(bones) |-> <<bones[i], armature>>]

\* the (bone, armature) pairs one armature adds, lines 132-134
AllPoseBones(armature) == Pairs(armature, PoseBones(armature))

SelectedPoseBones(armature) ==
    Pairs(armature, SelectSeq(PoseBones(armature), BoneSelect))

\* context.mode
ContextMode == IF active = "None" THEN "OBJECT" ELSE object_mode[active]

\* not selected_bones_with_armature and not selected_empties
NoCheck == FALSE

NoTrackedEntities ==
    selected_bones_with_armature = <<>> /\ selected_empties = <<>>

Resolution ==
    IF props.use_render_resolution
    THEN <<scene.resolution_x, scene.resolution_y>>
    ELSE <<props.resolution_x, props.resolution_y>>

FrameBounds ==
    IF props.use_scene_frame_range
    THEN <<scene.frame_start, scene.frame_end>>
    ELSE <<props.frame_start, props.frame_end>>

Frames == FrameRange(frame_start, frame_end)

----------------------------------------------------------------------------
(* Initial states *)

\* the objects of the scene in the order of context.selected_objects
ObjectOrder == <<"armA", "emptyE", "cube", "armB", "emptyF">>

ReverseOrder == [i \in 1..Len(ObjectOrder) |-> ObjectOrder[Len(ObjectOrder) + 1 - i]]

\* context.selected_objects when the objects of S are selected
SelOf(order, S) == SelectSeq(order, LAMBDA o : o \in S)

Pairs2(S) == S \X S

SceneOf(camera, selected, bs, range, res, cam, writable) ==
    [camera |-> camera, selected_objects |-> selected, bone_select |-> bs,
     frame_start |-> range[1], frame_end |-> range[2],
     resolution_x |-> res[1], resolution_y |-> res[2],
     cam |-> cam, writable |-> writable]

PropsOf(use_res, res, use_range, range, bp) ==
    [use_render_resolution |-> use_res,
     resolution_x |-> res[1], resolution_y |-> res[2],
     use_scene_frame_range |-> use_range,
     frame_start |-> range[1], frame_end |-> range[2],
     bone_point |-> bp]

\* the scene keeps frame_start <= frame_end; the custom values are only >= 1
SceneRanges == {r \in Pairs2(1..MaxFrame) : r[1] <= r[2]}
PropsRanges == Pairs2(1..MaxFrame)
Resolutions == Pairs2(1..MaxRes)
CamOffsets == Pairs2((-2 * Den - 1)..(Den + 2))

\* the locals of execute() before it runs
LocalsInit ==
    /\ pc = "start"
    /\ res_x = 0 /\ res_y = 0 /\ frame_start = 0 /\ frame_end = 0
    /\ selected_armatures = <<>> /\ selected_empties = <<>>
    /\ selected_bones_with_armature = <<>>
    /\ original_mode = "OBJECT" /\ original_active = "None"
    /\ current_frame = 0
    /\ bone_traces = <<>> /\ trace = <<>> /\ ei = 1 /\ fi = 1
    /\ raised = FALSE /\ result = "None" /\ reports = <<>>

InitWith(sc, pr, act, posed, fc) ==
    /\ scene = sc
    /\ props = pr
    /\ active = act
    /\ object_mode = [o \in Objects |-> IF o \in posed THEN "POSE" ELSE "OBJECT"]
    /\ frame_current = fc
    /\ file = [written |-> FALSE, data |-> <<>>]
    /\ LocalsInit
    /\ wrote = FALSE
    /\ entry = [active |-> act,
                mode |-> IF act \in posed THEN "POSE" ELSE "OBJECT",
                frame_current |-> fc,
                file |-> [written |-> FALSE, data |-> <<>>]]
    /\ frame_set_log = <<>>
    /\ samples = <<>>
    /\ traced = <<>>
    /\ runs = 1
    /\ prev = [valid |-> FALSE, traces |-> <<>>, nbones |-> 0]

\* every selection of objects and bones, with and without a camera
InitSelection ==
    \E camera \in BOOLEAN, S \in SUBSET Objects, bs \in SUBSET Bones,
       order \in {ObjectOrder, ReverseOrder} :
        InitWith(SceneOf(camera, SelOf(order, S), bs, <<1, MaxFrame>>,
                         <<MaxRes, 1>>, <<0, 0>>, TRUE),
                 PropsOf(TRUE, <<1, 1>>, TRUE, <<1, 1>>, "HEAD"),
                 "None", {}, 0)

\* every host state at the call, every frame range, writable or not
InitHost ==
    \E sel \in {<<<<"armA">>, {}>>, <<<<"armA", "emptyE">>, {"b2"}>>,
                <<<<"cube", "armB">>, {"b3"}>>},
       act \in Objects \cup {"None"}, posed \in SUBSET {"armA"},
       fc \in 0..MaxFrame, writable \in BOOLEAN, use_res \in BOOLEAN :
        \/ \E r \in SceneRanges :
              InitWith(SceneOf(TRUE, sel[1], sel[2], r, <<1, MaxRes>>,
                               <<0, 0>>, writable),
                       PropsOf(use_res, <<MaxRes, 1>>, TRUE, <<MaxFrame, 1>>,
                               "HEAD"),
                       act, posed, fc)
        \/ \E r \in PropsRanges :
              InitWith(SceneOf(TRUE, sel[1], sel[2], <<1, MaxFrame>>,
                               <<1, MaxRes>>, <<0, 0>>, writable),
                       PropsOf(use_res, <<MaxRes, 1>>, FALSE, r, "HEAD"),
                       act, posed, fc)

\* every camera placement and resolution, for one bone and one empty
InitProjection ==
    \E cam \in CamOffsets, res \in Resolutions :
        InitWith(SceneOf(TRUE, <<"armA", "emptyE">>, {"b1"}, <<1, 1>>,
                         <<1, 1>>, cam, TRUE),
                 PropsOf(FALSE, res, TRUE, <<1, 1>>, "HEAD"),
                 "cube", {}, 0)

Init == InitHost \/ InitSelection \/ InitProjection

----------------------------------------------------------------------------
(* execute(), lines 85-222 *)

Report(level) == reports' = Append(reports, level)

\* context.scene.frame_set(frame)
FrameSet(frame) ==
    /\ frame_current' = frame
    /\ frame_set_log' = Append(frame_set_log, frame)

\* lines 94-108
ReadSettings ==
    /\ res_x' = Resolution[1]
    /\ res_y' = Resolution[2]
    /\ frame_start' = FrameBounds[1]
    /\ frame_end' = FrameBounds[2]

\* lines 89-92
NoCamera ==
    /\ pc = "start"
    /\ ~scene.camera
    /\ Report("ERROR")
    /\ result' = "CANCELLED"
    /\ pc' = "done"
    /\ UNCHANGED <<host, ghost, res_x, res_y, frame_start, frame_end,
                   selected_armatures, selected_empties,
                   selected_bones_with_armature, original_mode,
                   original_active, current_frame, bone_traces, trace, ei, fi,
                   raised>>

\* lines 94-119
NoSelection ==
    /\ pc = "start"
    /\ scene.camera
    /\ SelectedArmatures = <<>> /\ SelectedEmpties = <<>>
    /\ ReadSettings
    /\ Report("ERROR")
    /\ result' = "CANCELLED"
    /\ pc' = "done"
    /\ UNCHANGED <<host, ghost, selected_armatures, selected_empties,
                   selected_bones_with_armature, original_mode,
                   original_active, current_frame, bone_traces, trace, ei, fi,
                   raised>>

\* lines 94-123
Begin ==
    /\ pc = "start"
    /\ scene.camera
    /\ ~(SelectedArmatures = <<>> /\ SelectedEmpties = <<>>)
    /\ ReadSettings
    /\ selected_armatures' = SelectedArmatures
    /\ selected_empties' = SelectedEmpties
    /\ selected_bones_with_armature' = <<>>
    /\ original_mode' = ContextMode
    /\ original_active' = active
    /\ ei' = 1
    /\ pc' = "armatures"
    /\ UNCHANGED <<host, ghost, current_frame, bone_traces, trace, fi, raised,
                   result, reports>>

\* one iteration of the loop of lines 125-134
ArmatureStep ==
    /\ pc = "armatures"
    /\ ei <= Len(selected_armatures)
    /\ active' = selected_armatures[ei]
    /\ object_mode' = [object_mode EXCEPT ![selected_armatures[ei]] = "POSE"]
    /\ selected_bones_with_armature' =
           selected_bones_with_armature \o SelectedPoseBones(selected_armatures[ei])
    /\ ei' = ei + 1
    /\ UNCHANGED <<scene, props, frame_current, file, ghost, pc, res_x, res_y,
                   frame_start, frame_end, selected_armatures,
                   selected_empties, original_mode, original_active,
                   current_frame, bone_traces, trace, fi, raised, result,
                   reports>>

\* lines 136-138
CancelNoBones ==
    /\ pc = "armatures"
    /\ ei > Len(selected_armatures)
    /\ NoTrackedEntities
    /\ Report("ERROR")
    /\ result' = "CANCELLED"
    /\ pc' = "done"
    /\ UNCHANGED <<host, ghost, res_x, res_y, frame_start, frame_end,
                   selected_armatures, selected_empties,
                   selected_bones_with_armature, original_mode,
                   original_active, current_frame, bone_traces, trace, ei, fi,
                   raised>>

\* lines 140-146
StoreFrame ==
    /\ pc = "armatures"
    /\ ei > Len(selected_armatures)
    /\ ~NoTrackedEntities
    /\ current_frame' = frame_current
    /\ bone_traces' = <<>>
    /\ trace' = <<>>
    /\ ei' = 1
    /\ fi' = 1
    /\ pc' = "bones"
    /\ UNCHANGED <<host, ghost, res_x, res_y, frame_start, frame_end,
                   selected_armatures, selected_empties,
                   selected_bones_with_armature, original_mode,
                   original_active, raised, result, reports>>

Sample(entity, cam_pos, pixel_pos) ==
    samples' = Append(samples, [entity |-> entity, frame |-> frame_current',
                                cam_pos |-> cam_pos, pixel_pos |-> pixel_pos])

TraceUnchanged ==
    UNCHANGED <<scene, props, active, object_mode, file, wrote, entry, runs,
                prev, res_x, res_y, frame_start, frame_end,
                selected_armatures, selected_empties,
                selected_bones_with_armature, original_mode, original_active,
                current_frame, raised, result, reports>>

\* one iteration of the loop of lines 152-175
SampleBone ==
    /\ pc = "bones"
    /\ ei <= Len(selected_bones_with_armature)
    /\ fi <= Len(Frames)
    /\ FrameSet(Frames[fi])
    /\ LET bone == selected_bones_with_armature[ei][1]
           armature == selected_bones_with_armature[ei][2]
           bone_pos == BonePos(bone, frame_current')
           world_pos == MatrixWorld(armature, bone_pos)
           cam_pos == WorldToCameraView(world_pos)
           pixel_pos == BonePixelPos(cam_pos, res_x, res_y)
       IN  /\ trace' = Append(trace, pixel_pos)
           /\ Sample(bone, cam_pos, pixel_pos)
    /\ fi' = fi + 1
    /\ UNCHANGED <<pc, ei, bone_traces, traced>>
    /\ TraceUnchanged

\* line 177, and line 149 of the next iteration
AppendBoneTrace ==
    /\ pc = "bones"
    /\ ei <= Len(selected_bones_with_armature)
    /\ fi > Len(Frames)
    /\ bone_traces' = Append(bone_traces, trace)
    /\ traced' = Append(traced, selected_bones_with_armature[ei][1])
    /\ trace' = <<>>
    /\ ei' = ei + 1
    /\ fi' = 1
    /\ UNCHANGED <<pc, frame_current, frame_set_log, samples>>
    /\ TraceUnchanged

\* the loop of line 148 ends, the loop of line 180 starts
StartEmpties ==
    /\ pc = "bones"
    /\ ei > Len(selected_bones_with_armature)
    /\ pc' = "empties"
    /\ ei' = 1
    /\ fi' = 1
    /\ trace' = <<>>
    /\ UNCHANGED <<bone_traces, traced, frame_current, frame_set_log, samples>>
    /\ TraceUnchanged

\* one iteration of the loop of lines 184-199
SampleEmpty ==
    /\ pc = "empties"
    /\ ei <= Len(selected_empties)
    /\ fi <= Len(Frames)
    /\ FrameSet(Frames[fi])
    /\ LET empty == selected_empties[ei]
           world_pos == EmptyWorldPos(empty, frame_current')
           cam_pos == WorldToCameraView(world_pos)
           pixel_pos == EmptyPixelPos(cam_pos, res_x, res_y)
       IN  /\ trace' = Append(trace, pixel_pos)
           /\ Sample(empty, cam_pos, pixel_pos)
    /\ fi' = fi + 1
    /\ UNCHANGED <<pc, ei, bone_traces, traced>>
    /\ TraceUnchanged

\* line 201, and line 181 of the next iteration
AppendEmptyTrace ==
    /\ pc = "empties"
    /\ ei <= Len(selected_empties)
    /\ fi > Len(Frames)
    /\ bone_traces' = Append(bone_traces, trace)
    /\ traced' = Append(traced, selected_empties[ei])
    /\ trace' = <<>>
    /\ ei' = ei + 1
    /\ fi' = 1
    /\ UNCHANGED <<pc, frame_current, frame_set_log, samples>>
    /\ TraceUnchanged

\* an iteration of either loop raises after the frame was set: a host call
\* of lines 157-167 or 188-191 fails
TraceRaises ==
    /\ \/ pc = "bones" /\ ei <= Len(selected_bones_with_armature)
       \/ pc = "empties" /\ ei <= Len(selected_empties)
    /\ fi <= Len(Frames)
    /\ FrameSet(Frames[fi])
    /\ raised' = TRUE
    /\ pc' = "finally"
    /\ UNCHANGED <<scene, props, active, object_mode, file, wrote, entry,
                   samples, traced, runs, prev, res_x, res_y, frame_start,
                   frame_end, selected_armatures, selected_empties,
                   selected_bones_with_armature, original_mode,
                   original_active, current_frame, bone_traces, trace, ei, fi,
                   result, reports>>

\* the try block is left, normally or by an exception
InFinally ==
    \/ pc = "finally"
    \/ pc = "empties" /\ ei > Len(selected_empties)

FinallyUnchanged ==
    UNCHANGED <<scene, props, object_mode, file, wrote, entry, samples,
                traced, runs, prev, res_x, res_y, frame_start, frame_end,
                selected_armatures, selected_empties,
                selected_bones_with_armature, original_mode, original_active,
                current_frame, bone_traces, trace, ei, fi, raised, reports>>

\* the restoring statements run only when the try block ends normally
FinallyOnSuccessOnly ==
    /\ InFinally
    /\ IF raised
       THEN /\ result' = "EXCEPTION"
            /\ pc' = "done"
            /\ UNCHANGED <<frame_current, frame_set_log, active>>
       ELSE /\ FrameSet(current_frame)
            /\ active' = original_active
            /\ pc' = "save"
            /\ UNCHANGED result
    /\ FinallyUnchanged

\* lines 203-206; an exception then leaves execute()
Finally ==
    /\ InFinally
    /\ FrameSet(current_frame)
    /\ active' = original_active
    /\ IF raised
       THEN result' = "EXCEPTION" /\ pc' = "done"
       ELSE pc' = "save" /\ UNCHANGED result
    /\ FinallyUnchanged

\* lines 208-216 and 222
SaveFile ==
    /\ pc = "save"
    /\ scene.writable
    /\ file' = [written |-> TRUE, data |-> bone_traces]
    /\ wrote' = TRUE
    /\ reports' = reports \o <<"INFO", "INFO">>
    /\ result' = "FINISHED"
    /\ pc' = "done"
    /\ UNCHANGED <<scene, props, active, object_mode, frame_current, entry,
                   frame_set_log, samples, traced, runs, prev, res_x, res_y,
                   frame_start, frame_end, selected_armatures,
                   selected_empties, selected_bones_with_armature,
                   original_mode, original_active, current_frame, bone_traces,
                   trace, ei, fi, raised>>

\* lines 208-211 and 218-220: open() fails
SaveFails ==
    /\ pc = "save"
    /\ ~scene.writable
    /\ Report("ERROR")
    /\ result' = "CANCELLED"
    /\ pc' = "done"
    /\ UNCHANGED <<host, ghost, res_x, res_y, frame_start, frame_end,
                   selected_armatures, selected_empties,
                   selected_bones_with_armature, original_mode,
                   original_active, current_frame, bone_traces, trace, ei, fi,
                   raised>>

\* the user picks another bone point in the panel (line 304) and presses
\* the export button again (line 358)
ExportAgain ==
    /\ pc = "done"
    /\ result = "FINISHED"
    /\ runs < MaxRuns
    /\ \E bp \in BonePoints \ {props.bone_point} :
           props' = [props EXCEPT !.bone_point = bp]
    /\ prev' = [valid |-> TRUE, traces |-> bone_traces,
                nbones |-> Len(selected_bones_with_armature)]
    /\ runs' = runs + 1
    /\ entry' = [active |-> active, mode |-> ContextMode,
                 frame_current |-> frame_current, file |-> file]
    /\ wrote' = FALSE
    /\ frame_set_log' = <<>>
    /\ samples' = <<>>
    /\ traced' = <<>>
    /\ pc' = "start"
    /\ res_x' = 0 /\ res_y' = 0 /\ frame_start' = 0 /\ frame_end' = 0
    /\ selected_armatures' = <<>> /\ selected_empties' = <<>>
    /\ selected_bones_with_armature' = <<>>
    /\ original_mode' = "OBJECT" /\ original_active' = "None"
    /\ current_frame' = 0
    /\ bone_traces' = <<>> /\ trace' = <<>> /\ ei' = 1 /\ fi' = 1
    /\ raised' = FALSE /\ result' = "None" /\ reports' = <<>>
    /\ UNCHANGED <<scene, active, object_mode, frame_current, file>>

Next ==
    \/ NoCamera
    \/ NoSelection
    \/ Begin
    \/ ArmatureStep
    \/ CancelNoBones
    \/ StoreFrame
    \/ SampleBone
    \/ AppendBoneTrace
    \/ StartEmpties
    \/ SampleEmpty
    \/ AppendEmptyTrace
    \/ TraceRaises
    \/ Finally
    \/ SaveFile
    \/ SaveFails
    \/ ExportAgain

Spec == Init /\ [][Next]_vars

----------------------------------------------------------------------------
(* What the scene alone says about an export *)

Range(seq) == {seq[i] : i \in DOMAIN seq}

IsSelectedBone(bone) == bone \in scene.bone_select

RECURSIVE BonesOf(_)
BonesOf(objs) ==
    IF objs = <<>> THEN <<>>
    ELSE (IF Type(Head(objs)) = "ARMATURE"
          THEN SelectSeq(PoseBones(Head(objs)), IsSelectedBone)
          ELSE <<>>) \o BonesOf(Tail(objs))

\* the tracked entities: the selected bones of the selected armatures, then
\* the selected empties
ExpectedEntities ==
    BonesOf(scene.selected_objects)
        \o SelectSeq(scene.selected_objects, LAMBDA o : Type(o) = "EMPTY")

Owner(bone) == IF bone = "b3" THEN "armB" ELSE "armA"

NumEntities ==
    Cardinality({b \in scene.bone_select : Owner(b) \in Range(scene.selected_objects)})
    + Cardinality({o \in Range(scene.selected_objects) : Type(o) = "EMPTY"})

SamplesOf(entity) == SelectSeq(samples, LAMBDA s : s.entity = entity)

\* v is num / Den truncated toward zero
IsTrunc(v, num) ==
    IF num >= 0 THEN v * Den <= num /\ num < (v + 1) * Den
    ELSE (v - 1) * Den < num /\ num <= v * Den

\* truncating num / Den differs from flooring it
TruncIsNotFloor(num) == num < 0 /\ num % Den # 0

InUnitSquare(s) ==
    /\ 0 <= s.cam_pos[1] /\ s.cam_pos[1] < Den
    /\ 0 <= s.cam_pos[2] /\ s.cam_pos[2] < Den

EmptyTraces(traces, nbones) == SubSeq(traces, nbones + 1, Len(traces))

----------------------------------------------------------------------------
(* Claims *)

\* C1: on every exit of execute() the current frame and the active object
\* equal their values immediately before the call.
C1_FrameAndActiveRestored ==
    pc = "done" =>
        /\ frame_current = entry.frame_current
        /\ active = entry.active

\* C2: when frame_start <= frame_end, every finished trace has
\* frame_end - frame_start + 1 entries; entry i is the projection sampled
\* with the current frame set to frame_start + i, the entity is sampled at
\* no other frame, and the stepping starts at frame_start for every entity.
C2_FrameCount ==
    frame_start <= frame_end =>
        \A k \in 1..Len(bone_traces) :
            LET mine == SamplesOf(traced[k])
                n == frame_end - frame_start + 1
            IN  /\ Len(bone_traces[k]) = n
                /\ Len(mine) = n
                /\ \A i \in 1..n :
                       /\ mine[i].frame = frame_start + i - 1
                       /\ bone_traces[k][i] = mine[i].pixel_pos
                       /\ mine[i].cam_pos = WorldToCameraView(
                              IF traced[k] \in Bones
                              THEN MatrixWorld(Owner(traced[k]),
                                       BonePos(traced[k], frame_start + i - 1))
                              ELSE EmptyWorldPos(traced[k], frame_start + i - 1))

C2_Witness ==
    /\ pc = "done" /\ result = "FINISHED"
    /\ frame_start < frame_end
    /\ Len(bone_traces) >= 3
    /\ \E k \in 1..Len(traced) : traced[k] \in Bones
    /\ \E k \in 1..Len(traced) : traced[k] \notin Bones
    /\ entry.frame_current # frame_end

\* C3: a successful export has one trace for every tracked entity, the
\* traces of the bones first (armatures in selection order, bones in pose
\* bone order), then the traces of the empties in selection order.
C3_EntityCount ==
    result = "FINISHED" =>
        /\ traced = ExpectedEntities
        /\ Len(bone_traces) = NumEntities
        /\ Len(traced) = Len(bone_traces)
        /\ file = [written |-> TRUE, data |-> bone_traces]

C3_Witness ==
    /\ result = "FINISHED"
    /\ Len(bone_traces) = 4
    /\ scene.selected_objects = <<"emptyF", "armB", "cube", "emptyE", "armA">>
    /\ traced = <<"b3", "b2", "emptyF", "emptyE">>

\* C4 as claimed: a normalized coordinate in [0,1) x [0,1) projects to a
\* pixel with 0 <= x < width and 0 <= y < height.
C4_PixelInsideImage ==
    \A s \in Range(samples) :
        InUnitSquare(s) =>
            /\ 0 <= s.pixel_pos.x /\ s.pixel_pos.x < res_x
            /\ 0 <= s.pixel_pos.y /\ s.pixel_pos.y < res_y

\* C4 as amended: a normalized coordinate in [0,1) x [0,1) projects to a
\* pixel with 0 <= x < width and 0 <= y <= height, and y = height is what
\* ny = 0 gives.
C4_PixelInsideImageOrBottomEdge ==
    \A s \in Range(samples) :
        InUnitSquare(s) =>
            /\ 0 <= s.pixel_pos.x /\ s.pixel_pos.x < res_x
            /\ 0 <= s.pixel_pos.y /\ s.pixel_pos.y <= res_y
            /\ s.cam_pos[2] = 0 => s.pixel_pos.y = res_y

C4_Witness ==
    \E s \in Range(samples) :
        /\ InUnitSquare(s) /\ s.cam_pos[1] > 0 /\ s.cam_pos[2] = 0
        /\ s.pixel_pos.x > 0 /\ s.pixel_pos.y = res_y
        /\ res_x > 1 /\ res_y > 1

\* C5: when an iteration of the tracing loops raises, no file is written,
\* execute() returns no value, and the current frame and the active object
\* have their values of before the call when the exception leaves.
C5_TraceFailure ==
    raised =>
        /\ ~wrote
        /\ file = entry.file
        /\ pc \in {"finally", "done"}
        /\ pc = "done" =>
               /\ result = "EXCEPTION"
               /\ frame_current = entry.frame_current
               /\ active = entry.active

C5_Witness ==
    /\ raised /\ pc = "done"
    /\ Len(samples) >= 1
    /\ Len(frame_set_log) >= 3
    /\ entry.active = "cube"
    /\ selected_armatures # <<>>
    /\ entry.frame_current \notin Range(Frames)

\* C6: without a camera or without a tracked entity the export returns
\* CANCELLED with an error report, never calls frame_set and writes no file.
C6_PreconditionAbort ==
    (~scene.camera \/ ExpectedEntities = <<>>) =>
        /\ frame_set_log = <<>>
        /\ frame_current = entry.frame_current
        /\ ~wrote
        /\ file = entry.file
        /\ pc \in {"start", "armatures", "done"}
        /\ pc = "done" => result = "CANCELLED" /\ reports = <<"ERROR">>

C6_Witness ==
    /\ pc = "done" /\ result = "CANCELLED"
    /\ scene.camera
    /\ selected_armatures # <<>>
    /\ ExpectedEntities = <<>>
    /\ frame_set_log = <<>>

\* C7: two successful exports of the same scene that differ only in
\* bone_point give the same traces for the empties.
C7_BonePointIrrelevantForEmpties ==
    (pc = "done" /\ result = "FINISHED" /\ prev.valid) =>
        EmptyTraces(bone_traces, Len(selected_bones_with_armature))
            = EmptyTraces(prev.traces, prev.nbones)

C7_Witness ==
    /\ pc = "done" /\ result = "FINISHED" /\ prev.valid
    /\ selected_empties # <<>>
    /\ Len(bone_traces[Len(bone_traces)]) >= 1
    /\ prev.nbones >= 1
    /\ bone_traces[1] # prev.traces[1]

\* C8: every pixel is x = trunc(nx * width), y = trunc((1 - ny) * height),
\* truncated toward zero and not clamped, for bones and empties alike;
\* (0,1) gives (0,0) and (1,0) gives (width, height).
C8_Truncation ==
    \A s \in Range(samples) :
        /\ IsTrunc(s.pixel_pos.x, s.cam_pos[1] * res_x)
        /\ IsTrunc(s.pixel_pos.y, (Den - s.cam_pos[2]) * res_y)
        /\ s.cam_pos = <<0, Den>> => s.pixel_pos = [x |-> 0, y |-> 0]
        /\ s.cam_pos = <<Den, 0>> => s.pixel_pos = [x |-> res_x, y |-> res_y]

C8_Witness ==
    \E s \in Range(samples), t \in Range(samples) :
        /\ s.entity \in Bones
        /\ TruncIsNotFloor(s.cam_pos[1] * res_x)
        /\ t.entity \notin Bones
        /\ TruncIsNotFloor((Den - t.cam_pos[2]) * res_y)
        /\ s.pixel_pos.y < 0 /\ t.pixel_pos.x < 0

\* C9: on every exit of execute() the context mode equals the mode before
\* the call.
C9_ModeRestored ==
    pc = "done" => ContextMode = entry.mode

====
